---- MODULE Spec2Model ----
(***************************************************************************)
(* The automata service of gohome (services/automata/main.go): the event   *)
(* loop of Service.Run, the rule-set loader, the compiled-expression       *)
(* cache, the restore paths, the administrative state override and the     *)
(* named timers.  The state-machine core (package gofsm: Load, Process,    *)
(* ChangeState, Persist, Restore) is modelled from the specification.      *)
(* Time is counted in whole ticks; timer delays in tenths of a second.     *)
(* The earth and clock producers of the loop only publish events and are   *)
(* left out: the events they publish are among the external bus events.    *)
(***************************************************************************)
EXTENDS Integers, Sequences, FiniteSets, TLC

\* Bound: number of inputs the environment delivers (bus events, config
\* notifications, administrative queries, clock ticks).
MaxInputs == 2

\* Capacity of the configUpdated channel.
ConfigChanCap == 2

\* Number of points of the unit interval rand.Float64() is drawn from.
RandGrid == 2

(***************************************************************************)
(* Expressions.  An expression is its source text; Parse gives what        *)
(* govaluate makes of a text: the function or operator applied and the     *)
(* typed arguments.                                                        *)
(***************************************************************************)
Str(s) == [t |-> "string", s |-> s, n |-> 0]
Num(n) == [t |-> "float64", s |-> "", n |-> n]
Ctx == [t |-> "context", s |-> "", n |-> 0]

\* guards
GCmdOn == "type == 'dev' && command == 'on'"
GCmdOff == "type == 'dev' && command == 'off'"
GAnyCmd == "type == 'dev'"
GTimer == "type == 'timer'"
GNonBool == "command"
GEvalErr == "-command"
\* actions
AStart == "StartTimer('t1', 2.0)"
AStartArity == "StartTimer('t1')"
AStartType == "StartTimer('t1', 'x')"
ARandom == "RandomTimer('t1', 1.5, 1.9)"
ARandomInv == "RandomTimer('t1', 3.0, 3.0)"
ALog == "Log('changed')"
\* a text that does not compile
XBad == "Log('changed'"

\* strings.Replace(code, "(", "(context, ", 1): the implicit first argument.
Rewrite(code) ==
    CASE code = AStart -> "StartTimer(context, 't1', 2.0)"
      [] code = AStartArity -> "StartTimer(context, 't1')"
      [] code = AStartType -> "StartTimer(context, 't1', 'x')"
      [] code = ARandom -> "RandomTimer(context, 't1', 1.5, 1.9)"
      [] code = ARandomInv -> "RandomTimer(context, 't1', 3.0, 3.0)"
      [] code = ALog -> "Log(context, 'changed')"
      [] code = XBad -> "Log(context, 'changed'"
      [] OTHER -> code

Parsed(fn, args) == [ok |-> TRUE, fn |-> fn, args |-> args]

\* govaluate.NewEvaluableExpressionWithFunctions; numbers in tenths.
Parse(code) ==
    CASE code = GCmdOn -> Parsed("&&", <<Str("dev"), Str("on")>>)
      [] code = GCmdOff -> Parsed("&&", <<Str("dev"), Str("off")>>)
      [] code = GAnyCmd -> Parsed("==", <<Str("type"), Str("dev")>>)
      [] code = GTimer -> Parsed("==", <<Str("type"), Str("timer")>>)
      [] code = GNonBool -> Parsed("field", <<Str("command")>>)
      [] code = GEvalErr -> Parsed("-", <<Str("command")>>)
      [] code = AStart -> Parsed("StartTimer", <<Str("t1"), Num(20)>>)
      [] code = AStartArity -> Parsed("StartTimer", <<Str("t1")>>)
      [] code = AStartType -> Parsed("StartTimer", <<Str("t1"), Str("x")>>)
      [] code = ARandom -> Parsed("RandomTimer", <<Str("t1"), Num(15), Num(19)>>)
      [] code = ARandomInv -> Parsed("RandomTimer", <<Str("t1"), Num(30), Num(30)>>)
      [] code = ALog -> Parsed("Log", <<Str("changed")>>)
      [] code = Rewrite(AStart) -> Parsed("StartTimer", <<Ctx, Str("t1"), Num(20)>>)
      [] code = Rewrite(AStartArity) -> Parsed("StartTimer", <<Ctx, Str("t1")>>)
      [] code = Rewrite(AStartType) ->
            Parsed("StartTimer", <<Ctx, Str("t1"), Str("x")>>)
      [] code = Rewrite(ARandom) ->
            Parsed("RandomTimer", <<Ctx, Str("t1"), Num(15), Num(19)>>)
      [] code = Rewrite(ARandomInv) ->
            Parsed("RandomTimer", <<Ctx, Str("t1"), Num(30), Num(30)>>)
      [] code = Rewrite(ALog) -> Parsed("Log", <<Ctx, Str("changed")>>)
      [] OTHER -> [ok |-> FALSE, fn |-> "", args |-> <<>>]


\* Mutant of Compiles: every text is taken to compile.
CompilesAll(code) == TRUE

Compiles(code) == Parse(code).ok

(***************************************************************************)
(* Events.  A device id is the sequence of its dot-separated parts.        *)
(***************************************************************************)
A1 == <<"a1">>
A2 == <<"a2">>
A3 == <<"a3">>
Dev == <<"dev", "d1">>
Scene == <<"scene", "s1">>
TimerDev(name) == <<"timer", name>>

Event(topic, device, command, state, retained, ts) ==
    [topic |-> topic, device |-> device, command |-> command, state |-> state,
     retained |-> retained, ts |-> ts]

\* EventContext.Get
Get(ev, name) ==
    CASE name = "type" -> ev.device[1]
      [] name = "topic" -> ev.topic
      [] name = "command" -> ev.command
      [] name = "state" -> ev.state
      [] OTHER -> ""

\* expr.Eval of a compiled expression on an event: the value, or the outcome
\* "error".
EvalParsed(e, ev) ==
    CASE e.fn = "==" -> [kind |-> "bool", b |-> Get(ev, e.args[1].s) = e.args[2].s]
      [] e.fn = "&&" -> [kind |-> "bool", b |-> Get(ev, "type") = e.args[1].s
                                                /\ Get(ev, "command") = e.args[2].s]
      [] e.fn = "field" -> [kind |-> "string", b |-> FALSE]
      [] OTHER -> [kind |-> "error", b |-> FALSE]

Eval(code, ev) == EvalParsed(Parse(code), ev)


\* Mutant of IsTrue: only a boolean false is false.
IsTrueLoose(r) == r.kind # "bool" \/ r.b

\* The result of Eval is the boolean true: an evaluation error and a value
\* that is not a boolean are false.
IsTrue(r) ==
    IF r.kind = "error" THEN FALSE
    ELSE IF r.kind # "bool" THEN FALSE
    ELSE r.b

\* EventContext.Match: parse error, evaluation error and non-boolean are false.
Match(when, ev) ==
    IF ~Compiles(when) THEN FALSE
    ELSE IsTrue(Eval(when, ev))

\* DummyEvent.Match
DummyMatch(when) == FALSE

(***************************************************************************)
(* Rule documents.  A document either fails to render or parse, or gives   *)
(* for each automaton its start state, its states with their entering and  *)
(* leaving actions, and for each source state its transitions in declared  *)
(* order.                                                                  *)
(***************************************************************************)
Step(when, actions, next) == [when |-> when, actions |-> actions, next |-> next]

DocA ==
    [parse |-> TRUE,
     aut |-> (A1 :> [start |-> "off",
                     states |-> {"off", "on", "alt"},
                     entering |-> [s \in {"off", "on", "alt"} |->
                                     IF s = "on" THEN <<ALog>> ELSE <<>>],
                     leaving |-> [s \in {"off", "on", "alt"} |-> <<>>],
                     steps |-> [s \in {"off", "on", "alt"} |->
                        CASE s = "off" -> <<Step(GCmdOn, <<AStart>>, "on"),
                                            Step(GAnyCmd, <<>>, "alt")>>
                          [] s = "on" -> <<Step(GTimer, <<>>, "off"),
                                           Step(GCmdOff, <<ARandom>>, "off")>>
                          [] s = "alt" -> <<Step(GNonBool, <<>>, "on"),
                                            Step(GEvalErr, <<>>, "on"),
                                            Step(GCmdOff, <<>>, "off")>>]])
          @@ (A2 :> [start |-> "idle",
                     states |-> {"idle", "busy"},
                     entering |-> [s \in {"idle", "busy"} |-> <<>>],
                     leaving |-> [s \in {"idle", "busy"} |-> <<>>],
                     steps |-> [s \in {"idle", "busy"} |->
                        CASE s = "idle" -> <<Step(GCmdOn, <<ARandomInv>>, "busy")>>
                          [] s = "busy" -> <<Step(GCmdOff, <<AStartArity>>, "idle")>>]])]

DocB ==
    [parse |-> TRUE,
     aut |-> (A1 :> [start |-> "off",
                     states |-> {"off", "alt"},
                     entering |-> [s \in {"off", "alt"} |-> <<>>],
                     leaving |-> [s \in {"off", "alt"} |->
                                     IF s = "alt" THEN <<ALog>> ELSE <<>>],
                     steps |-> [s \in {"off", "alt"} |->
                        CASE s = "off" -> <<Step(GCmdOn, <<>>, "alt")>>
                          [] s = "alt" -> <<Step(GCmdOff, <<>>, "off")>>]])
          @@ (A3 :> [start |-> "idle",
                     states |-> {"idle", "busy"},
                     entering |-> [s \in {"idle", "busy"} |-> <<>>],
                     leaving |-> [s \in {"idle", "busy"} |-> <<>>],
                     steps |-> [s \in {"idle", "busy"} |->
                        CASE s = "idle" -> <<Step(GCmdOn, <<AStartType>>, "busy")>>
                          [] s = "busy" -> <<>>]])]

\* one expression of this document does not compile
DocBad ==
    [parse |-> TRUE,
     aut |-> (A1 :> [start |-> "off",
                     states |-> {"off", "on"},
                     entering |-> [s \in {"off", "on"} |-> <<>>],
                     leaving |-> [s \in {"off", "on"} |-> <<>>],
                     steps |-> [s \in {"off", "on"} |->
                        CASE s = "off" -> <<Step(GCmdOff, <<XBad>>, "on")>>
                          [] s = "on" -> <<Step(GEvalErr, <<>>, "off")>>]])]

\* the template or the document does not parse
DocNoParse == [parse |-> FALSE, aut |-> <<>>]

Docs == <<DocA, DocB, DocBad, DocNoParse>>

Range(seq) == {seq[i] : i \in DOMAIN seq}

\* Every guard and action text of a document: the texts loadAutomata precompiles.
DocExprs(doc) ==
    UNION {
        UNION { {t.when} \cup Range(t.actions) :
                   t \in UNION {Range(doc.aut[a].steps[s]) : s \in doc.aut[a].states} }
        \cup UNION {Range(doc.aut[a].entering[s]) \cup Range(doc.aut[a].leaving[s]) :
                       s \in doc.aut[a].states}
        : a \in DOMAIN doc.aut }

(***************************************************************************)
(* State.                                                                  *)
(***************************************************************************)
VARIABLES
    pc,                 \* Run: "start", "loop", "exited" (Run returned), "panicked"
    config,             \* index in Docs of the document services.Configured holds
    active,             \* index in Docs of the rule set of automata, 0 before a load
    gen,                \* number of the *gofsm.Automata object automata points to
    automaton,          \* automata.Automaton: id -> [state, since, ann]
    Changes,            \* automata.Changes
    Actions,            \* automata.Actions
    parsingCache,       \* the texts parsingCache holds a compiled expression for
    restoredAutomaton,  \* self.restoredAutomaton
    windowFired,        \* the stateRestored timer of Run has fired
    configUpdated,      \* number of signals in self.configUpdated
    timers,             \* self.timers: name -> index in timerTab
    timerTab,           \* every time.Timer created: [name, dur, st, replaced]
    published,          \* events given to services.Publisher.Emit: event -> count
    bus,                \* timer events published and not yet delivered back
    logfile,            \* number of lines appended to events.log
    now,                \* time.Now()
    q,                  \* the queryState call in progress, outside the loop
    nChange,            \* number of transitions applied so far
    inputs,             \* number of inputs delivered so far
    event,              \* the event this step took from ch, NoEvent if none
    lastRetained        \* device -> state of the last retained state event seen

vars == <<pc, config, active, gen, automaton, Changes, Actions, parsingCache,
          restoredAutomaton, windowFired, configUpdated, timers, timerTab,
          published, bus, logfile, now, q, nChange, inputs, event, lastRetained>>

NoEvent == Event("", <<>>, "", "", FALSE, 0)
QIdle == [pc |-> "idle", aut |-> <<>>, old |-> "", new |-> "", gen |-> 0, cid |-> 0]

Min(S) == CHOOSE x \in S : \A y \in S : x <= y

\* The orders in which a range over a Go map may visit the keys.
Perms(S) == {f \in [1..Cardinality(S) -> S] : \A i, j \in DOMAIN f : f[i] = f[j] => i = j}

(***************************************************************************)
(* The state-machine core.                                                 *)
(***************************************************************************)
\* gofsm.Load: every automaton of the document at its start state.
Fresh(d) ==
    [a \in DOMAIN Docs[d].aut |->
        [state |-> Docs[d].aut[a].start, since |-> now, ann |-> Docs[d].aut[a].start]]

\* Automata.Persist: the snapshot of all automatons.
Persist(reg) == [a \in DOMAIN reg |-> [state |-> reg[a].state, since |-> reg[a].since]]

\* Automata.Restore: state and since of the automatons the snapshot names;
\* a state the automaton does not declare is not taken.
Restore(reg, d, snap) ==
    [a \in DOMAIN reg |->
        IF a \in DOMAIN snap /\ snap[a].state \in Docs[d].aut[a].states
        THEN [state |-> snap[a].state, since |-> snap[a].since, ann |-> snap[a].state]
        ELSE reg[a]]

\* EventContext.String and DummyEvent.String: what fmt.Sprint gives of a trigger.
TriggerOf(ev) == ev.device \o <<ev.command>>
UserTrigger == <<"user">>

Change(a, old, new, trigger, cid) ==
    [automaton |-> a, old |-> old, new |-> new, trigger |-> trigger, cid |-> cid]

ActionsOf(exprs, trigger, cid) ==
    [i \in DOMAIN exprs |-> [expr |-> exprs[i], trigger |-> trigger, cid |-> cid]]


\* The transitions whose guard matches the event.
Hits(steps, ev) == {i \in DOMAIN steps : Match(steps[i].when, ev)}

Max(S) == IF S = {} THEN 0 ELSE CHOOSE x \in S : \A y \in S : y <= x

\* Mutant of FirstMatch: the last matching transition wins.
LastMatch(steps, ev) == Max(Hits(steps, ev))

First(S) == IF S = {} THEN 0 ELSE Min(S)

\* The index of the first transition, in declared order, whose guard matches;
\* 0 when none does.
FirstMatch(steps, ev) == First(Hits(steps, ev))


\* Mutant of Transition: the entering actions are scheduled first, the
\* leaving actions last.
TransitionEnteringFirst(a, old, def, t, trig, cid) ==
    [st |-> [state |-> t.next, since |-> now, ann |-> t.next],
     ch |-> <<Change(a, old, t.next, trig, cid)>>,
     ac |-> ActionsOf(def.entering[t.next] \o t.actions \o def.leaving[old],
                      trig, cid),
     n |-> 1]


\* Mutant of Transition: since is set to the zero time.
TransitionSinceZero(a, old, def, t, trig, cid) ==
    [st |-> [state |-> t.next, since |-> 0, ann |-> t.next],
     ch |-> <<Change(a, old, t.next, trig, cid)>>,
     ac |-> ActionsOf(def.leaving[old] \o t.actions \o def.entering[t.next],
                      trig, cid),
     n |-> 1]

\* Applying transition t of definition def to automaton a in state old.
Transition(a, old, def, t, trig, cid) ==
    [st |-> [state |-> t.next, since |-> now, ann |-> t.next],
     ch |-> <<Change(a, old, t.next, trig, cid)>>,
     ac |-> ActionsOf(def.leaving[old] \o t.actions \o def.entering[t.next],
                      trig, cid),
     n |-> 1]

\* Transition i of the state of st, or nothing when i = 0.
ProcessStep(a, st, def, i, trig, cid) ==
    IF i = 0
    THEN [st |-> st, ch |-> <<>>, ac |-> <<>>, n |-> 0]
    ELSE Transition(a, st.state, def, def.steps[st.state][i], trig, cid)

ProcessDef(a, st, def, ev, cid) ==
    ProcessStep(a, st, def, FirstMatch(def.steps[st.state], ev), TriggerOf(ev), cid)

\* Automaton.Process on one automaton: its record, the Change and the Actions.
ProcessOne(a, st, d, ev, cid) == ProcessDef(a, st, Docs[d].aut[a], ev, cid)

\* The outcome r of automaton a added to what Process has collected.
Collect(acc, a, r) ==
    [reg |-> [acc.reg EXCEPT ![a] = r.st],
     ch |-> acc.ch \o r.ch,
     ac |-> acc.ac \o r.ac,
     n |-> acc.n + r.n]

\* Automata.Process: every automaton, in the order ord.
RECURSIVE ProcessAll(_, _, _, _)
ProcessAll(ord, d, ev, acc) ==
    IF ord = <<>> THEN acc
    ELSE ProcessAll(Tail(ord), d, ev,
                    Collect(acc, Head(ord),
                            ProcessOne(Head(ord), acc.reg[Head(ord)], d, ev, acc.n + 1)))

(***************************************************************************)
(* The loader and the expression cache.                                    *)
(***************************************************************************)

\* Mutant of LoadOutcome: the collected compile errors are not looked at.
LoadIgnoringErrors(d, cache) ==
    IF ~Docs[d].parse THEN [ok |-> FALSE, cache |-> cache]
    ELSE [ok |-> TRUE, cache |-> {e \in DocExprs(Docs[d]) : Parse(e).ok}]

\* loadAutomata on document d: whether it is accepted, and parsingCache after
\* it.  The cache is emptied before the candidate is compiled, and
\* ParseCached stores every text that compiles.
LoadOutcome(d, cache) ==
    IF ~Docs[d].parse THEN [ok |-> FALSE, cache |-> cache]
    ELSE LET ex == DocExprs(Docs[d])
             good == {e \in ex : Compiles(e)}
         IN [ok |-> good = ex, cache |-> good]

(***************************************************************************)
(* The function library.                                                   *)
(***************************************************************************)
CheckArguments(args, types) ==
    /\ Len(args) = Len(types)
    /\ \A i \in DOMAIN args : types[i] = "" \/ args[i].t = types[i]


\* Mutant of Failed: the error is returned after a timer has been armed.
FailedArmed == [err |-> TRUE, arm |-> TRUE, name |-> "t1", d |-> 10, log |-> FALSE]

Failed == [err |-> TRUE, arm |-> FALSE, name |-> "", d |-> 0, log |-> FALSE]
Arm(name, d) == [err |-> FALSE, arm |-> TRUE, name |-> name, d |-> d, log |-> FALSE]
Logged == [err |-> FALSE, arm |-> FALSE, name |-> "", d |-> 0, log |-> TRUE]
NoEffect == [err |-> FALSE, arm |-> FALSE, name |-> "", d |-> 0, log |-> FALSE]

StartTimer(args) ==
    IF ~CheckArguments(args, <<"", "string", "float64">>) THEN Failed
    ELSE Arm(args[2].s, args[3].n)


\* Mutant of RandomTimer: the range is not checked.
RandomTimerUnchecked(args, r) ==
    IF ~CheckArguments(args, <<"", "string", "float64", "float64">>) THEN Failed
    ELSE Arm(args[2].s, args[3].n)

\* r is the draw of self.rand.Float64(), in RandGrid-ths.
RandomTimer(args, r) ==
    IF ~CheckArguments(args, <<"", "string", "float64", "float64">>) THEN Failed
    ELSE IF args[4].n <= args[3].n THEN Failed
    ELSE Arm(args[2].s, args[3].n + (r * (args[4].n - args[3].n)) \div RandGrid)

Log(args) ==
    IF ~CheckArguments(args, <<"", "string">>) THEN Failed ELSE Logged

\* expr.Evaluate of a compiled action text.
Evaluate(code, r) ==
    LET e == Parse(code) IN
    CASE e.fn = "StartTimer" -> StartTimer(e.args)
      [] e.fn = "RandomTimer" -> RandomTimer(e.args, r)
      [] e.fn = "Log" -> Log(e.args)
      [] OTHER -> NoEffect

(***************************************************************************)
(* Timers.                                                                 *)
(***************************************************************************)

\* Mutant of StopTimer: the previous timer is left running.
StopTimerNot(tab, id) == tab

\* timer.Stop(): a timer that has not fired will not fire.
StopTimer(tab, id) ==
    IF tab[id].st = "armed" THEN [tab EXCEPT ![id].st = "stopped"] ELSE tab

\* time.Duration(d) * time.Second, d in tenths of a second.
Duration(d) == (d \div 10) * 10

\* startTimer: the table of timers and self.timers after it.
StartTimerTab(name, d) ==
    LET tab == IF name \in DOMAIN timers THEN StopTimer(timerTab, timers[name])
               ELSE timerTab
        replaced == \E i \in DOMAIN timerTab :
                        timerTab[i].name = name /\ timerTab[i].st = "armed"
    IN Append(tab, [name |-> name, dur |-> Duration(d), st |-> "armed",
                    replaced |-> replaced])

(***************************************************************************)
(* Published events.                                                       *)
(***************************************************************************)
NoTrigger == <<>>
InitialTrigger == <<"initial">>

Pub(topic, device, command, state, retained, trigger, cid) ==
    [topic |-> topic, device |-> device, command |-> command, state |-> state,
     retained |-> retained, trigger |-> trigger, cid |-> cid]

\* publishState
PublishState(device, state, trigger, cid) ==
    Pub("state", device, "", state, TRUE, trigger, cid)

\* services.Publisher.Emit
Emit(pub, e) ==
    IF e \in DOMAIN pub THEN [pub EXCEPT ![e] = @ + 1] ELSE pub @@ (e :> 1)


\* Mutant of InitialStates: stateRestored publishes nothing.
InitialStatesNone(pub, reg, missing) == pub

\* stateRestored on registry reg: the initial state of every automaton of
\* missing is published.
RECURSIVE InitialStates(_, _, _)
InitialStates(pub, reg, missing) ==
    IF missing = {} THEN pub
    ELSE LET k == CHOOSE x \in missing : TRUE
         IN InitialStates(Emit(pub, PublishState(k, reg[k].state, InitialTrigger, 0)),
                          reg, missing \ {k})

\* The broker's retained message of topic state per device after event e: a
\* retained state event replaces the one held for its device.
Retain(store, e) ==
    IF e.topic = "state" /\ e.retained
    THEN [d \in DOMAIN store \cup {e.device} |->
             IF d = e.device THEN e.state ELSE store[d]]
    ELSE store

\* The retained messages after the publications of stateRestored.
RetainInitial(store, reg, missing) ==
    [d \in DOMAIN store \cup missing |->
        IF d \in missing THEN reg[d].state ELSE store[d]]

(***************************************************************************)
(* Initial state: the Service before Run.                                  *)
(***************************************************************************)
Init ==
    /\ pc = "start"
    /\ config \in DOMAIN Docs
    /\ active = 0
    /\ gen = 0
    /\ automaton = <<>>
    /\ Changes = <<>>
    /\ Actions = <<>>
    /\ parsingCache = {}
    /\ restoredAutomaton = {}
    /\ windowFired = FALSE
    /\ configUpdated = 0
    /\ timers = <<>>
    /\ timerTab = <<>>
    /\ published = <<>>
    /\ bus = <<>>
    /\ logfile = 0
    /\ now = 1
    /\ q = QIdle
    /\ nChange = 0
    /\ inputs = 0
    /\ event = NoEvent
    /\ lastRetained = <<>>

(***************************************************************************)
(* Run up to the loop: the initial load.                                   *)
(***************************************************************************)
Run ==
    /\ pc = "start"
    /\ LET out == LoadOutcome(config, parsingCache)
       IN /\ parsingCache' = out.cache
          /\ IF out.ok
             THEN /\ pc' = "loop"
                  /\ active' = config
                  /\ gen' = gen + 1
                  /\ automaton' = Fresh(config)
             ELSE /\ pc' = "exited"
                  /\ UNCHANGED <<active, gen, automaton>>
    /\ UNCHANGED <<config, Changes, Actions, restoredAutomaton, windowFired,
                   configUpdated, timers, timerTab, published, bus, logfile, now,
                   q, nChange, inputs>>
    /\ event' = NoEvent
    /\ UNCHANGED lastRetained

(***************************************************************************)
(* case ev := <-ch                                                         *)
(***************************************************************************)

\* Mutant of HandleCommand: the command of every device is acked.
HandleCommandAckAll(ev) ==
    /\ published' = Emit(published,
                         Pub("ack", ev.device, ev.command, "", FALSE, NoTrigger, 0))
    /\ UNCHANGED <<automaton, Changes, Actions, nChange, restoredAutomaton,
                   parsingCache>>

\* handleCommand
HandleCommand(ev) ==
    /\ published' = IF Len(ev.device) >= 2 /\ ev.device[1] = "scene"
                    THEN Emit(published,
                              Pub("ack", ev.device, ev.command, "", FALSE, NoTrigger, 0))
                    ELSE published
    /\ UNCHANGED <<automaton, Changes, Actions, nChange, restoredAutomaton,
                   parsingCache>>


\* Mutant of RestoreState: the restored state is published like a change.
RestoreStatePublishing(ev) ==
    /\ IF ev.device \in DOMAIN automaton
       THEN /\ automaton' = Restore(automaton, active,
                                    ev.device :> [state |-> ev.state, since |-> ev.ts])
            /\ restoredAutomaton' = restoredAutomaton \cup {ev.device}
            /\ published' = Emit(published,
                                 PublishState(ev.device, ev.state, <<"restored">>, 0))
       ELSE UNCHANGED <<automaton, restoredAutomaton, published>>
    /\ UNCHANGED <<Changes, Actions, nChange, parsingCache>>

\* restoreState
RestoreState(ev) ==
    /\ IF ev.device \in DOMAIN automaton
       THEN /\ automaton' = Restore(automaton, active,
                                    ev.device :> [state |-> ev.state, since |-> ev.ts])
            /\ restoredAutomaton' = restoredAutomaton \cup {ev.device}
       ELSE UNCHANGED <<automaton, restoredAutomaton>>
    /\ UNCHANGED <<Changes, Actions, nChange, published, parsingCache>>


\* The guards Match is called with for one automaton: those of its state up to
\* the first that matches. ParseCached stores the ones that compile.
Tried(steps, first) ==
    {steps[i].when : i \in {j \in DOMAIN steps :
                               (first = 0 \/ j <= first) /\ Compiles(steps[j].when)}}

\* The texts ParseCached is called with while the event is processed.
ParsedBy(ev) ==
    UNION {Tried(Docs[active].aut[a].steps[automaton[a].state],
                 FirstMatch(Docs[active].aut[a].steps[automaton[a].state], ev)) :
             a \in DOMAIN automaton}

\* The outcome of automata.Process written to the automata and its channels.
Processing(r) ==
    /\ automaton' = r.reg
    /\ Changes' = Changes \o r.ch
    /\ Actions' = Actions \o r.ac
    /\ nChange' = r.n

\* automata.Process(event)
Process(ev) ==
    /\ \E ord \in Perms(DOMAIN automaton) :
          Processing(ProcessAll(ord, active, ev,
                                [reg |-> automaton, ch |-> <<>>, ac |-> <<>>,
                                 n |-> nChange]))
    /\ parsingCache' = parsingCache \cup ParsedBy(ev)
    /\ UNCHANGED <<restoredAutomaton, published>>

HandleEvent(ev) ==
    IF ev.topic = "command" THEN HandleCommand(ev)
    ELSE IF ev.retained
         THEN IF ev.topic = "state" THEN RestoreState(ev)
              ELSE UNCHANGED <<automaton, Changes, Actions, nChange,
                                  restoredAutomaton, published, parsingCache>>
         ELSE Process(ev)

\* The events other services put on the bus.
ExtEvents ==
    {Event("sensor", Dev, c, "", FALSE, now) : c \in {"on", "off"}}
    \cup {Event("command", d, "on", "", FALSE, now) : d \in {Scene, Dev}}
    \cup {Event("sensor", Dev, "on", "", TRUE, now)}
    \cup {Event("state", a, "", "on", TRUE, ts) : a \in {A1, A2}, ts \in {0, now}}

\* An event of another service arrives.
BusEvent ==
    /\ pc = "loop"
    /\ inputs < MaxInputs
    /\ inputs' = inputs + 1
    /\ \E ev \in ExtEvents :
          /\ event' = ev
          /\ HandleEvent(ev)
          /\ lastRetained' = Retain(lastRetained, ev)
    /\ UNCHANGED <<pc, config, active, gen, windowFired, configUpdated,
                   timers, timerTab, bus, logfile, now, q>>

\* A timer event this service published arrives.
TimerEvent ==
    /\ pc = "loop"
    /\ bus # <<>>
    /\ bus' = Tail(bus)
    /\ event' = Head(bus)
    /\ HandleEvent(Head(bus))
    /\ lastRetained' = Retain(lastRetained, Head(bus))
    /\ UNCHANGED <<pc, config, active, gen, windowFired, configUpdated,
                   timers, timerTab, logfile, now, q, inputs>>

(***************************************************************************)
(* case change := <-automata.Changes                                       *)
(***************************************************************************)
ChangeState ==
    /\ pc = "loop"
    /\ Changes # <<>>
    /\ LET change == Head(Changes)
       IN published' = Emit(published,
              PublishState(change.automaton, change.new, change.trigger, change.cid))
    /\ Changes' = Tail(Changes)
    /\ UNCHANGED <<pc, config, active, gen, automaton, Actions, parsingCache,
                   restoredAutomaton, windowFired, configUpdated, timers, timerTab,
                   bus, logfile, now, q, nChange, inputs>>
    /\ event' = NoEvent
    /\ lastRetained' = Retain(lastRetained,
           PublishState(Head(Changes).automaton, Head(Changes).new,
                        Head(Changes).trigger, Head(Changes).cid))

(***************************************************************************)
(* case action := <-automata.Actions                                       *)
(***************************************************************************)
PerformAction ==
    /\ pc = "loop"
    /\ Actions # <<>>
    /\ Actions' = Tail(Actions)
    /\ LET action == Head(Actions)
           code == Rewrite(action.expr)
       IN IF code \notin parsingCache /\ ~Compiles(code)
          THEN \* ParseCached fails: the action is dropped
               /\ UNCHANGED <<pc, parsingCache, timers, timerTab, published, logfile>>
          ELSE /\ parsingCache' = parsingCache \cup {code}
               /\ IF action.trigger = UserTrigger
                  THEN \* action.Trigger.(EventContext) on a DummyEvent
                       /\ pc' = "panicked"
                       /\ UNCHANGED <<timers, timerTab, published, logfile>>
                  ELSE /\ pc' = pc
                       /\ \E r \in 0..(RandGrid - 1) :
                            LET res == Evaluate(code, r)
                            IN /\ IF res.arm
                                  THEN /\ timerTab' = StartTimerTab(res.name, res.d)
                                       /\ timers' = (res.name :> (Len(timerTab) + 1)) @@ timers
                                  ELSE UNCHANGED <<timers, timerTab>>
                               /\ IF res.log
                                  THEN /\ logfile' = logfile + 1
                                       /\ published' = Emit(published,
                                             Pub("log", <<>>, "", "", FALSE, NoTrigger, 0))
                                  ELSE UNCHANGED <<logfile, published>>
    /\ UNCHANGED <<config, active, gen, automaton, Changes, restoredAutomaton,
                   windowFired, configUpdated, bus, now, q, nChange, inputs>>
    /\ event' = NoEvent
    /\ UNCHANGED lastRetained

(***************************************************************************)
(* The timer callback of startTimer, on its own goroutine.                 *)
(***************************************************************************)

\* Mutant of TimerPub: the device is the bare timer name.
TimerPubBare(name) == Pub("timer", <<name>>, "on", "", FALSE, NoTrigger, 0)

\* The event the callback emits.
TimerPub(name) == Pub("timer", TimerDev(name), "on", "", FALSE, NoTrigger, 0)

TimerFire ==
    /\ pc = "loop"
    /\ \E id \in DOMAIN timerTab :
          /\ timerTab[id].st = "armed"
          /\ timerTab' = [timerTab EXCEPT ![id].st = "fired"]
          /\ published' = Emit(published, TimerPub(timerTab[id].name))
          /\ bus' = Append(bus, Event("timer", TimerDev(timerTab[id].name), "on", "",
                                      FALSE, now))
    /\ UNCHANGED <<pc, config, active, gen, automaton, Changes, Actions, parsingCache,
                   restoredAutomaton, windowFired, configUpdated, timers, logfile,
                   now, q, nChange, inputs>>
    /\ event' = NoEvent
    /\ UNCHANGED lastRetained

(***************************************************************************)
(* Reload and the reconciliation window.                                   *)
(***************************************************************************)
\* ConfigUpdated: the document changed, signal the loop.
ConfigUpdated ==
    /\ pc = "loop"
    /\ inputs < MaxInputs
    /\ configUpdated < ConfigChanCap
    /\ inputs' = inputs + 1
    /\ configUpdated' = configUpdated + 1
    /\ \E d \in DOMAIN Docs : config' = d
    /\ UNCHANGED <<pc, active, gen, automaton, Changes, Actions, parsingCache,
                   restoredAutomaton, windowFired, timers, timerTab, published, bus,
                   logfile, now, q, nChange>>
    /\ event' = NoEvent
    /\ UNCHANGED lastRetained


\* Mutant of Reloaded: the persisted state is not restored after the load.
ReloadedFresh(state) == Fresh(config)

\* The registry after an accepted reload: the new automatons with the
\* state persisted before the load restored into them.
Reloaded(state) == Restore(Fresh(config), config, state)

\* case <-self.configUpdated
Reload ==
    /\ pc = "loop"
    /\ configUpdated > 0
    /\ configUpdated' = configUpdated - 1
    /\ LET state == Persist(automaton)
           out == LoadOutcome(config, parsingCache)
       IN /\ parsingCache' = out.cache
          /\ IF ~out.ok
             THEN UNCHANGED <<active, gen, automaton, Changes, Actions,
                                 restoredAutomaton, published, lastRetained>>
             ELSE LET reg == Reloaded(state)
                      missing == DOMAIN reg \ restoredAutomaton
                  IN /\ active' = config
                     /\ gen' = gen + 1
                     /\ automaton' = reg
                     /\ Changes' = <<>>
                     /\ Actions' = <<>>
                     /\ published' = InitialStates(published, reg, missing)
                     /\ restoredAutomaton' = restoredAutomaton \cup missing
                     /\ lastRetained' = RetainInitial(lastRetained, reg, missing)
    /\ UNCHANGED <<pc, config, windowFired, timers, timerTab, bus, logfile, now, q,
                   nChange, inputs>>
    /\ event' = NoEvent

\* case <-stateRestored.C
StateRestored ==
    /\ pc = "loop"
    /\ ~windowFired
    /\ windowFired' = TRUE
    /\ LET missing == DOMAIN automaton \ restoredAutomaton
       IN /\ published' = InitialStates(published, automaton, missing)
          /\ restoredAutomaton' = restoredAutomaton \cup missing
          /\ lastRetained' = RetainInitial(lastRetained, automaton, missing)
    /\ UNCHANGED <<pc, config, active, gen, automaton, Changes, Actions, parsingCache,
                   configUpdated, timers, timerTab, bus, logfile, now, q, nChange,
                   inputs>>
    /\ event' = NoEvent

\* Time passes.
Tick ==
    /\ pc = "loop"
    /\ inputs < MaxInputs
    /\ inputs' = inputs + 1
    /\ now' = now + 1
    /\ UNCHANGED <<pc, config, active, gen, automaton, Changes, Actions, parsingCache,
                   restoredAutomaton, windowFired, configUpdated, timers, timerTab,
                   published, bus, logfile, q, nChange>>
    /\ event' = NoEvent
    /\ UNCHANGED lastRetained

(***************************************************************************)
(* queryState, run by the query dispatcher outside the loop of Run.        *)
(* aut.ChangeState writes the state, then since and the Change, then the   *)
(* leaving and entering actions, on the automaton object it looked up.     *)
(***************************************************************************)
QueryState ==
    /\ pc = "loop"
    /\ inputs < MaxInputs
    /\ q.pc = "idle"
    /\ inputs' = inputs + 1
    /\ \E a \in {A1, A2}, s \in {"on", "alt"} :
          IF a \notin DOMAIN automaton
          THEN UNCHANGED <<automaton, q, nChange>>
          ELSE IF s \notin Docs[active].aut[a].states
          THEN UNCHANGED <<automaton, q, nChange>>
          ELSE /\ automaton' = [automaton EXCEPT ![a].state = s]
               /\ q' = [pc |-> "since", aut |-> a, old |-> automaton[a].state,
                        new |-> s, gen |-> gen, cid |-> nChange + 1]
               /\ nChange' = nChange + 1
    /\ UNCHANGED <<pc, config, active, gen, Changes, Actions, parsingCache,
                   restoredAutomaton, windowFired, configUpdated, timers, timerTab,
                   published, bus, logfile, now>>
    /\ event' = NoEvent
    /\ UNCHANGED lastRetained

QuerySince ==
    /\ pc = "loop"
    /\ q.pc = "since"
    /\ q' = [q EXCEPT !.pc = "actions"]
    /\ IF q.gen = gen
       THEN /\ automaton' = [automaton EXCEPT ![q.aut].since = now, ![q.aut].ann = q.new]
            /\ Changes' = Append(Changes, Change(q.aut, q.old, q.new, UserTrigger, q.cid))
       ELSE \* the object was replaced by a reload: its fields and channels are gone
            UNCHANGED <<automaton, Changes>>
    /\ UNCHANGED <<pc, config, active, gen, Actions, parsingCache, restoredAutomaton,
                   windowFired, configUpdated, timers, timerTab, published, bus,
                   logfile, now, nChange, inputs>>
    /\ event' = NoEvent
    /\ UNCHANGED lastRetained

QueryActions ==
    /\ pc = "loop"
    /\ q.pc = "actions"
    /\ q' = QIdle
    /\ IF q.gen = gen
       THEN LET def == Docs[active].aut[q.aut]
            IN Actions' = Actions \o ActionsOf(def.leaving[q.old] \o def.entering[q.new],
                                               UserTrigger, q.cid)
       ELSE UNCHANGED Actions
    /\ UNCHANGED <<pc, config, active, gen, automaton, Changes, parsingCache,
                   restoredAutomaton, windowFired, configUpdated, timers, timerTab,
                   published, bus, logfile, now, nChange, inputs>>
    /\ event' = NoEvent
    /\ UNCHANGED lastRetained

Next ==
    \/ Run
    \/ BusEvent
    \/ TimerEvent
    \/ ChangeState
    \/ PerformAction
    \/ TimerFire
    \/ ConfigUpdated
    \/ Reload
    \/ StateRestored
    \/ Tick
    \/ QueryState
    \/ QuerySince
    \/ QueryActions

Spec == Init /\ [][Next]_vars

(***************************************************************************)
(* Properties.                                                             *)
(***************************************************************************)
PubCount(e) == IF e \in DOMAIN published THEN published[e] ELSE 0

\* The guard is true on the event: it compiles and evaluates to boolean true.
GuardTrue(when, ev) ==
    /\ Parse(when).ok
    /\ Eval(when, ev).kind = "bool"
    /\ Eval(when, ev).b

\* The step passed event' to automata.Process.
Processed == event' # NoEvent /\ event'.topic # "command" /\ ~event'.retained

\* The Changes the step appended for automaton a.
NewChanges(a) ==
    {i \in (Len(Changes) + 1)..Len(Changes') : Changes'[i].automaton = a}

\* C1: when Process handles an event, an automaton with one or more guards of
\* its current state true on the event takes the first of them in declared
\* order and no other (one state change, one Change); an automaton with no
\* true guard keeps its state and since and emits no Change.
FirstMatchOnly ==
    [][Processed =>
         /\ Len(Changes') >= Len(Changes)
         /\ \A a \in DOMAIN automaton :
              LET steps == Docs[active].aut[a].steps[automaton[a].state]
                  hits == {i \in DOMAIN steps : GuardTrue(steps[i].when, event')}
              IN IF hits = {}
                 THEN automaton'[a] = automaton[a] /\ NewChanges(a) = {}
                 ELSE /\ automaton'[a].state = steps[Min(hits)].next
                      /\ automaton'[a].since = now
                      /\ Cardinality(NewChanges(a)) = 1
                      /\ \A i \in NewChanges(a) :
                            /\ Changes'[i].old = automaton[a].state
                            /\ Changes'[i].new = steps[Min(hits)].next]_vars

\* Witness of C1: the event on made both guards of state off of a1 true and
\* a1 took the first, to on.
FirstMatchTaken ==
    /\ event = Event("sensor", Dev, "on", "", FALSE, now)
    /\ active = 1
    /\ automaton[A1].state = "on"
    /\ \E i \in DOMAIN Changes :
          Changes[i].automaton = A1 /\ Changes[i].old = "off" /\ Changes[i].new = "on"

\* C2: every automaton of the active rule set is at one of its declared
\* states, and its state never differs from the state its last Change (or
\* restore, or load) announced: no step sees a transition of which only the
\* state pointer has been written.
AtomicTransition ==
    \A a \in DOMAIN automaton :
        /\ automaton[a].state \in Docs[active].aut[a].states
        /\ automaton[a].state = automaton[a].ann

\* The step handled a reload signal.
ReloadHandled == configUpdated' < configUpdated

\* C3: a reload of a document with an expression that does not compile leaves
\* every automaton's state and since and the active rule set as they were.
RejectedReloadKeepsState ==
    [][(ReloadHandled /\ Docs[config].parse
          /\ \E e \in DocExprs(Docs[config]) : ~Parse(e).ok)
       => automaton' = automaton /\ active' = active /\ gen' = gen]_vars

\* Witness of C3: the bad document was compiled (the cache holds what compiles
\* of it) while a1 had left its initial state, and the first rule set is active.
RejectedReloadSeen ==
    /\ active = 1
    /\ config = 3
    /\ configUpdated = 0
    /\ parsingCache = {GCmdOff, GEvalErr}
    /\ automaton[A1].state # "off"

\* C4: the compiled-expression cache always holds every expression of the
\* active rule set: no state pairs the rule set with a cache that was emptied
\* or filled from a rejected candidate.
CacheMatchesRuleSet ==
    pc = "loop" => DocExprs(Docs[active]) \subseteq parsingCache

\* The step accepted a reload: automata points to a new object.
ReloadAccepted == ReloadHandled /\ gen' # gen

NewActions(cid) ==
    SelectSeq(SubSeq(Actions', Len(Actions) + 1, Len(Actions')),
              LAMBDA x : x.cid = cid)

\* C6: a retained state event sets state and since of its automaton and
\* emits no Change, schedules no action and publishes nothing; a reload emits
\* no Change, schedules no action and publishes nothing but the initial
\* states of stateRestored; and what Process does with an automaton
\* on a live event depends on its current state alone, restored or not: the
\* first true guard's destination, and the leaving, transition and entering
\* actions of that transition.
RestoreIsSilent ==
    [][/\ (event' # NoEvent /\ event'.retained /\ event'.topic = "state") =>
            /\ Changes' = Changes
            /\ Actions' = Actions
            /\ published' = published
            /\ nChange' = nChange
            /\ \A a \in DOMAIN automaton :
                 IF a = event'.device /\ event'.state \in Docs[active].aut[a].states
                 THEN /\ automaton'[a].state = event'.state
                      /\ automaton'[a].since = event'.ts
                 ELSE automaton'[a] = automaton[a]
       /\ ReloadHandled =>
            /\ Changes' \in {Changes, <<>>}
            /\ Actions' \in {Actions, <<>>}
            /\ nChange' = nChange
            /\ \A e \in DOMAIN published' :
                  PubCount(e) < published'[e] => e.trigger = InitialTrigger
       /\ Processed =>
            /\ Len(Actions') >= Len(Actions)
            /\ \A a \in DOMAIN automaton :
                 LET def == Docs[active].aut[a]
                     old == automaton[a].state
                     hits == {i \in DOMAIN def.steps[old] :
                                 GuardTrue(def.steps[old][i].when, event')}
                 IN hits # {} =>
                      LET t == def.steps[old][Min(hits)]
                      IN \A i \in NewChanges(a) :
                            NewActions(Changes'[i].cid) =
                               ActionsOf(def.leaving[old] \o t.actions
                                            \o def.entering[t.next],
                                         TriggerOf(event'), Changes'[i].cid)
            /\ \A j \in (Len(Actions) + 1)..Len(Actions') :
                  \E i \in (Len(Changes) + 1)..Len(Changes') :
                     Changes'[i].cid = Actions'[j].cid]_vars

\* Witness of C6: the first transition ever applied takes a1 from on to off on
\* the event off, with the action of that transition scheduled: a1 was at on
\* by a restore only.
RestoredThenLive ==
    /\ nChange = 1
    /\ event = Event("sensor", Dev, "off", "", FALSE, now)
    /\ \E i \in DOMAIN Changes :
          Changes[i] = Change(A1, "on", "off", <<"dev", "d1", "off">>, 1)
    /\ \E j \in DOMAIN Actions : Actions[j].expr = ARandom /\ Actions[j].cid = 1

\* The number of retained state events published for transition cid.
PublishedFor(cid) ==
    LET S == {e \in DOMAIN published : e.topic = "state" /\ e.cid = cid}
    IN IF S = {} THEN 0
       ELSE IF Cardinality(S) = 1 THEN published[CHOOSE e \in S : TRUE]
       ELSE 2

\* The number of Changes of transition cid not yet published.
PendingFor(cid) ==
    Cardinality({i \in DOMAIN Changes : Changes[i].cid = cid})
    + (IF q.pc = "since" /\ q.cid = cid THEN 1 ELSE 0)

\* C7: the Change of every applied transition is either pending or has been
\* published as a retained state event, once: none is lost and none is
\* published twice, whatever was handled in between.
ChangePublishedOnce ==
    \A cid \in 1..nChange : PendingFor(cid) + PublishedFor(cid) = 1

TimerNames == {"t1"}

TimersOf(name, st) ==
    {i \in DOMAIN timerTab : timerTab[i].name = name /\ timerTab[i].st = st}

\* C8: at most one timer per name is armed, and every start that found a timer
\* of its name armed took that timer's firing away: the firing events of a
\* name, the starts that replaced a timer and the timer still armed add up to
\* the starts of the name.
TimerReplaced ==
    \A name \in TimerNames :
        /\ Cardinality(TimersOf(name, "armed")) <= 1
        /\ PubCount(Pub("timer", TimerDev(name), "on", "", FALSE, NoTrigger, 0))
             + Cardinality({i \in DOMAIN timerTab :
                              timerTab[i].name = name /\ timerTab[i].replaced})
             + Cardinality(TimersOf(name, "armed"))
           = Cardinality({i \in DOMAIN timerTab : timerTab[i].name = name})

\* Witness of C8: t1 was started twice, the second start while the first was
\* armed, and one firing event was published.
TimerStartedTwice ==
    /\ Len(timerTab) = 2
    /\ timerTab[2].replaced
    /\ timerTab[1].st = "stopped"
    /\ timerTab[2].st = "fired"
    /\ PubCount(Pub("timer", TimerDev("t1"), "on", "", FALSE, NoTrigger, 0)) = 1

\* C9: the expiry of a timer publishes one event with topic timer, device
\* timer.<name> and command on, and changes no automaton, emits no Change and
\* schedules no action; a timer that has fired does not fire again.
TimerFiresAsEvent ==
    [][\A i \in DOMAIN timerTab :
         /\ timerTab[i].st = "fired" => timerTab'[i].st = "fired"
         /\ (timerTab[i].st = "armed" /\ timerTab'[i].st = "fired") =>
               /\ automaton' = automaton
               /\ Changes' = Changes
               /\ Actions' = Actions
               /\ published' = Emit(published,
                     Pub("timer", <<"timer", timerTab[i].name>>, "on", "", FALSE,
                         NoTrigger, 0))]_vars

\* Witness of C9: the firing event of t1 was published once, came back from
\* the bus and took a1 from on to off.
TimerEventProcessed ==
    /\ PubCount(Pub("timer", TimerDev("t1"), "on", "", FALSE, NoTrigger, 0)) = 1
    /\ event = Event("timer", TimerDev("t1"), "on", "", FALSE, now)
    /\ \E i \in DOMAIN Changes :
          /\ Changes[i].automaton = A1
          /\ Changes[i].old = "on"
          /\ Changes[i].new = "off"
          /\ Changes[i].trigger = <<"timer", "t1", "on">>

\* C10: performing RandomTimer(name, min, max) with max <= min is an error and
\* leaves self.timers and every timer as they were.
InvertedRangeArmsNothing ==
    [][(/\ pc = "loop"
        /\ Actions # <<>>
        /\ Actions' = Tail(Actions)
        /\ Head(Actions).trigger # UserTrigger
        /\ Parse(Rewrite(Head(Actions).expr)).fn = "RandomTimer"
        /\ Len(Parse(Rewrite(Head(Actions).expr)).args) = 4
        /\ Parse(Rewrite(Head(Actions).expr)).args[4].n
              <= Parse(Rewrite(Head(Actions).expr)).args[3].n)
       => /\ timers' = timers
          /\ timerTab' = timerTab
          /\ \A r \in 0..(RandGrid - 1) :
                Evaluate(Rewrite(Head(Actions).expr), r).err]_vars

\* Witness of C10: one event took a1 to on (transition 1, StartTimer) and a2
\* to busy (transition 2, the inverted RandomTimer); all actions have been
\* performed and the timer of transition 1 is still the only one, and armed.
InvertedRangeSeen ==
    /\ Actions = <<>>
    /\ pc = "loop"
    /\ nChange = 2
    /\ Rewrite(ARandomInv) \in parsingCache
    /\ Rewrite(AStart) \in parsingCache
    /\ PendingFor(1) + PublishedFor(1) = 1
    /\ \E i \in DOMAIN Changes : Changes[i].cid = 2 /\ Changes[i].automaton = A2
    /\ \E i \in DOMAIN Changes : Changes[i].cid = 1 /\ Changes[i].automaton = A1
    /\ Len(timerTab) = 1
    /\ timerTab[1].st = "armed"

\* The step performed the action at the head of Actions, of a bus-triggered
\* transition, and the action is fn with n arguments after the context.
Performed(fn, n) ==
    /\ pc = "loop"
    /\ Actions # <<>>
    /\ Actions' = Tail(Actions)
    /\ ~ReloadHandled
    /\ Head(Actions).trigger # UserTrigger
    /\ Parse(Rewrite(Head(Actions).expr)).fn = fn
    /\ Len(Parse(Rewrite(Head(Actions).expr)).args) = n + 1

\* The arguments of the action at the head of Actions.
HeadArgs == Parse(Rewrite(Head(Actions).expr)).args

\* C11: performing RandomTimer(name, min, max) with max > min arms one timer
\* whose delay d satisfies min <= d < max.
RandomDelayInRange ==
    [][(Performed("RandomTimer", 3) /\ HeadArgs[4].n > HeadArgs[3].n) =>
          /\ Len(timerTab') = Len(timerTab) + 1
          /\ timerTab'[Len(timerTab')].dur >= HeadArgs[3].n
          /\ timerTab'[Len(timerTab')].dur < HeadArgs[4].n]_vars

\* The guards of steps that fail to parse, fail to evaluate or give a value
\* that is not a boolean on the event.
Anomalous(steps, ev) ==
    {i \in DOMAIN steps :
        ~Parse(steps[i].when).ok \/ Eval(steps[i].when, ev).kind # "bool"}

\* The guards of steps that give the boolean true on the event.
TrueGuards(steps, ev) ==
    {i \in DOMAIN steps \ Anomalous(steps, ev) : Eval(steps[i].when, ev).b}

\* What Process has done with automaton a, given the guards of its state that
\* are true: nothing when there is none, else the first of them.
Outcome(a, steps, good) ==
    IF good = {}
    THEN automaton'[a] = automaton[a] /\ NewChanges(a) = {}
    ELSE /\ automaton'[a].state = steps[Min(good)].next
         /\ \A i \in NewChanges(a) : Changes'[i].new = steps[Min(good)].next
         /\ NewChanges(a) # {}

\* C12: when an automaton's state has a guard that fails to parse, fails to
\* evaluate or is not a boolean on the event, that guard is passed over as
\* false: the automaton takes the first of its remaining guards that is true,
\* or nothing, and every other automaton does with the same event what its own
\* guards say.
BadGuardIsFalse ==
    [][Processed =>
         \A a \in DOMAIN automaton :
            Anomalous(Docs[active].aut[a].steps[automaton[a].state], event') # {} =>
               \A b \in DOMAIN automaton :
                  Outcome(b, Docs[active].aut[b].steps[automaton[b].state],
                          TrueGuards(Docs[active].aut[b].steps[automaton[b].state],
                                     event'))]_vars

\* Witness of C12: a1 at alt got the event off: the first guard of alt is not a
\* boolean, the second fails to evaluate, and a1 went to off by the third.
BadGuardsPassed ==
    /\ active = 1
    /\ event = Event("sensor", Dev, "off", "", FALSE, now)
    /\ \E i \in DOMAIN Changes :
          Changes[i] = Change(A1, "alt", "off", <<"dev", "d1", "off">>, nChange)
    /\ automaton[A1].state = "off"

\* The actions of transition t of definition def from state old, in the order
\* of spec 4.2.
Scheduled(def, old, t, trig, cid) ==
    ActionsOf(def.leaving[old] \o t.actions \o def.entering[t.next], trig, cid)

\* The actions the step appended for automaton a are those of its first true
\* guard, in order.
ScheduledInOrder(a, def, old, good) ==
    \A i \in NewChanges(a) :
        NewActions(Changes'[i].cid) =
           Scheduled(def, old, def.steps[old][Min(good)], TriggerOf(event'),
                     Changes'[i].cid)

OverrideActionsRun ==
    [][(/\ pc = "loop"
        /\ Actions # <<>>
        /\ Actions' = Tail(Actions)
        /\ Head(Actions).trigger = UserTrigger) => pc' = "loop"]_vars

\* The events of pub that publish a state of automaton a as its initial one.
InitialEvents(pub, a) ==
    {e \in DOMAIN pub : e.topic = "state" /\ e.device = a /\ e.trigger = InitialTrigger}

\* The step took a retained state event for automaton a from the bus.
Replayed(a) ==
    /\ event' # NoEvent
    /\ event'.retained
    /\ event'.topic = "state"
    /\ event'.device = a

\* The step published state st of a as its initial state, once, and no other.
PublishedInitial(a, st) ==
    /\ InitialEvents(published', a) = {PublishState(a, st, InitialTrigger, 0)}
    /\ published'[PublishState(a, st, InitialTrigger, 0)] = 1
    /\ InitialEvents(published, a) = {}

\* The step published nothing as the initial state of a.
InitialUntouched(a) ==
    /\ InitialEvents(published', a) = InitialEvents(published, a)
    /\ \A e \in InitialEvents(published, a) : published'[e] = published[e]

Snapshot == A1 :> [state |-> "on", since |-> 0]

\* RestoreFile on a readable snapshot.
RestoreFile(reg, d) == Restore(reg, d, Snapshot)

\* C16: with a present and valid snapshot, the automatons have the states of
\* the snapshot when Run enters its loop, before any bus event is processed.
SnapshotApplied ==
    (pc = "loop" /\ gen = 1 /\ inputs = 0 /\ nChange = 0) =>
        \A a \in DOMAIN automaton :
            automaton[a].state = RestoreFile(Fresh(active), active)[a].state

\* C17: the notifications delivered before the loop has handled the first
\* leave one reload to be done, and there is room for the next notification.
NotificationsCollapse == configUpdated <= 1

\* C18: the automatons and the expression cache are written by the loop of
\* Run only, never by a step of the query handler.
LoopOnlyMutation ==
    [][(automaton' # automaton \/ parsingCache' # parsingCache) => q' = q]_vars

\* C19: between two loads the expression cache does not change: handling an
\* event, a Change or an action adds, replaces and removes nothing.
CacheFixedPerGeneration ==
    [][(pc = "loop" /\ ~ReloadHandled) => parsingCache' = parsingCache]_vars

\* C20 as claimed: no step lowers the since of an automaton.
SinceNeverDecreases ==
    [][\A a \in DOMAIN automaton \cap DOMAIN automaton' :
          automaton'[a].since >= automaton[a].since]_vars

\* C20, amended: no step but the restore of a retained state event lowers the
\* since of an automaton; the restore sets it to the timestamp of the event.
SinceAdvances ==
    [][\A a \in DOMAIN automaton \cap DOMAIN automaton' :
          IF Replayed(a)
          THEN automaton'[a].since \in {automaton[a].since, event'.ts}
          ELSE automaton'[a].since >= automaton[a].since]_vars

\* Witness of C20: time has passed since the load and a live event has taken
\* a1 from off to on: its since has moved from the time of the load to now.
SinceMoved ==
    /\ now = 2
    /\ event = Event("sensor", Dev, "on", "", FALSE, 2)
    /\ active = 1
    /\ automaton[A1].state = "on"
    /\ automaton[A1].since = 2
    /\ automaton[A2].since = 2

\* The arguments of the action at the head of Actions do not fit the
\* signature of its function.
BadCall ==
    \/ Performed("StartTimer", 0) \/ Performed("StartTimer", 1)
    \/ (Performed("StartTimer", 2)
        /\ (HeadArgs[2].t # "string" \/ HeadArgs[3].t # "float64"))

\* C21: performing an action whose call has the wrong number of arguments or
\* an argument of the wrong type arms and cancels no timer, publishes nothing
\* and writes nothing to the log; the loop goes on with the next action.
BadCallHasNoEffect ==
    [][BadCall =>
          /\ timers' = timers
          /\ timerTab' = timerTab
          /\ published' = published
          /\ logfile' = logfile
          /\ pc' = "loop"
          /\ automaton' = automaton
          /\ Changes' = Changes]_vars

\* Witness of C21: under DocB the event on took a1 to alt (transition 1) and
\* a3 to busy (transition 2, StartTimer with a string for the duration); the
\* event off took a1 back (transition 3, leaving action Log).  All actions have
\* been performed: the bad call armed nothing and the Log after it was run.
BadCallPassed ==
    /\ active = 2
    /\ pc = "loop"
    /\ Actions = <<>>
    /\ nChange = 3
    /\ Rewrite(AStartType) \in parsingCache
    /\ timerTab = <<>>
    /\ logfile = 1

\* Document d renders and parses and every expression of it compiles.
LoadsCleanly(d) ==
    /\ Docs[d].parse
    /\ \A e \in DocExprs(Docs[d]) : Parse(e).ok

\* C22: Run with an initial document that does not load returns before the
\* loop: nothing is processed, published or armed, and nothing happens after
\* the return; a reload, accepted or not, leaves the loop running.
InitialLoadFatal ==
    [][/\ pc = "start" =>
            IF LoadsCleanly(config)
            THEN pc' = "loop"
            ELSE /\ pc' = "exited"
                 /\ automaton' = <<>> /\ active' = 0
                 /\ published' = <<>> /\ bus' = <<>>
                 /\ timers' = <<>> /\ timerTab' = <<>>
                 /\ Changes' = <<>> /\ Actions' = <<>>
                 /\ event' = NoEvent
       /\ pc # "exited"
       /\ ReloadHandled => pc' = "loop"]_vars

\* Witness of C22: the initial document had an expression that does not
\* compile and Run has returned.
InitialLoadFailed ==
    /\ pc = "exited"
    /\ config = 3
    /\ ~LoadsCleanly(config)
    /\ published = <<>>
    /\ timerTab = <<>>

\* C23 as claimed: while the rule set loaded at startup is the active one and
\* the window has not elapsed, no step publishes an initial state for an
\* automaton of that rule set, a handled reload included.
NoInitialBeforeWindow ==
    [][(gen = 1 /\ ~windowFired') =>
          \A a \in DOMAIN automaton : InitialUntouched(a)]_vars

\* The event that publishes the declared initial state of a in document d.
InitialOf(d, a) == PublishState(a, Docs[d].aut[a].start, InitialTrigger, 0)

\* C24 as claimed: an accepted reload publishes, once, the initial state of
\* every automaton it introduces, one that an earlier rule set had and an
\* earlier reload dropped included.
IntroducedPublished ==
    [][ReloadAccepted =>
          \A a \in DOMAIN automaton' \ DOMAIN automaton :
             /\ automaton'[a].state = Docs[active'].aut[a].start
             /\ InitialOf(active', a) \in DOMAIN published'
             /\ published'[InitialOf(active', a)] = PubCount(InitialOf(active', a)) + 1]_vars

\* Sequence s is the beginning of sequence t.
IsPrefix(s, t) == Len(s) <= Len(t) /\ SubSeq(t, 1, Len(s)) = s

\* C25 as claimed: every scheduled action is executed: an action leaves the
\* queue only at its head, taken by the Actions case of the loop, and the
\* loop goes on to the next.
ScheduledActionsRun ==
    [][\/ IsPrefix(Actions, Actions')
       \/ /\ Actions # <<>>
          /\ ~ReloadHandled
          /\ IsPrefix(Tail(Actions), Actions')
          /\ pc' = "loop"]_vars

\* The ack of a command event.
Ack(ev) == Pub("ack", ev.device, ev.command, "", FALSE, NoTrigger, 0)

\* The step published e once more and nothing else.
PublishedOnly(e) ==
    /\ DOMAIN published' = DOMAIN published \cup {e}
    /\ \A x \in DOMAIN published' :
          published'[x] = PubCount(x) + (IF x = e THEN 1 ELSE 0)

\* C26: a command event and a retained event reach no guard: no transition,
\* no Change, no action, no expression parsed; a command event for a scene
\* device gives one ack with its device and command and any other command
\* event nothing; a retained event publishes nothing and changes an automaton
\* only if its topic is state, to the state and time it carries.
CommandAndRetainedBypass ==
    [][(event' # NoEvent /\ (event'.topic = "command" \/ event'.retained)) =>
          /\ Changes' = Changes
          /\ Actions' = Actions
          /\ nChange' = nChange
          /\ parsingCache' = parsingCache
          /\ DOMAIN automaton' = DOMAIN automaton
          /\ IF event'.topic = "command"
             THEN /\ automaton' = automaton
                  /\ IF Len(event'.device) >= 2 /\ event'.device[1] = "scene"
                     THEN PublishedOnly(Ack(event'))
                     ELSE published' = published
             ELSE /\ published' = published
                  /\ \A a \in DOMAIN automaton :
                        \/ automaton'[a] = automaton[a]
                        \/ /\ event'.topic = "state"
                           /\ event'.device = a
                           /\ automaton'[a].state = event'.state
                           /\ automaton'[a].since = event'.ts]_vars

\* Witness of C26: a command for a scene device has been acked once, with
\* the rule set untouched, and a retained state event has been restored.
CommandAcked ==
    /\ pc = "loop"
    /\ PubCount(Ack(Event("command", Scene, "on", "", FALSE, 1))) = 1
    /\ event # NoEvent /\ event.retained /\ event.topic = "state"
    /\ event.device = A1
    /\ automaton[A1].state = "on"
    /\ Changes = <<>> /\ Actions = <<>> /\ nChange = 0

\* C27 as claimed: once the window has elapsed, whenever no Change is pending
\* the last retained state event of every automaton of the rule set carries
\* the state the automaton is in.
QuiescentConsistency ==
    (pc = "loop" /\ windowFired /\ Changes = <<>>) =>
        \A a \in DOMAIN automaton :
            a \in DOMAIN lastRetained /\ lastRetained[a] = automaton[a].state
====
